---------------------------- MODULE Spec2Model ----------------------------
(***************************************************************************)
(* A model of the repository layer of dynamo-sandbox: the Repository       *)
(* class (mutate, replacePrimaryKey and its helpers), the                  *)
(* AttributeRegistry placeholder registry and getDDBUpdateExpression.      *)
(*                                                                         *)
(* The document store is the environment.  A table is a sequence of items  *)
(* (its scan order); every store call is either served or rejected, and a  *)
(* transactional write is applied as a whole or not at all.  The code      *)
(* between two awaits runs as one action.                                  *)
(***************************************************************************)
EXTENDS Integers, Sequences, FiniteSets, TLC

VARIABLES
    store,      \* table name -> sequence of items (the store's content)
    pc,         \* call -> position of the call
    args,       \* call -> the arguments the call was made with
    scanned,    \* call -> relatedItems of prepareCascadeUpdateParams
    sent,       \* call -> the commands given to db.send, in order
    replies,    \* call -> the store's answer to each command: "ok" | "rejected"
    result,     \* call -> what the call returned or threw
    pre,        \* call -> the store's content when the call was made
    registry,   \* one AttributeRegistry instance
    log         \* the key()/value()/get() calls made on registry

vars == <<store, pc, args, scanned, sent, replies, result, pre, registry, log>>

storeVars == <<store, pc, args, scanned, sent, replies, result, pre>>
registryVars == <<registry, log>>

-----------------------------------------------------------------------------
(* Bounds *)

\* items per table in an initial store
MaxItems == 2
\* calls made on one registry
MaxRegistryCalls == 6
\* attributes of an item given to getDDBUpdateExpression
MaxAttributes == 2

-----------------------------------------------------------------------------
(* Values *)

\* JavaScript's undefined, for a field that holds strings
Undefined == "undefined"

\* new Repository<Book>("BooksTable", docClient)
tableName == "BooksTable"

Tables == {"BooksTable", "BookReviewsTable"}

CallIds == {1, 2}

Last(s) == s[Len(s)]

BoundedSeq(S, n) == UNION {[1..k -> S] : k \in 0..n}

\* A value handed to the registry: a primitive is equal to another by its
\* content; an object instance is a reference (id) to a content.
Prim(c) == [kind |-> "prim", id |-> 0, content |-> c]
Obj(i, c) == [kind |-> "obj", id |-> i, content |-> c]

-----------------------------------------------------------------------------
(* AttributeRegistry *)

\* `#attr${i}` and `:value${i}`
AttrName(i) == <<"#attr", i>>
ValueName(i) == <<":value", i>>

\* A Map is the sequence of its entries <<key, value>> in insertion order;
\* its keys are compared by SameValueZero: primitives by content, objects
\* by reference.
MapHas(m, k) == \E i \in 1..Len(m) : m[i][1] = k
MapGet(m, k) == m[CHOOSE i \in 1..Len(m) : m[i][1] = k][2]
MapSet(m, k, v) ==
    IF MapHas(m, k)
    THEN [i \in 1..Len(m) |-> IF m[i][1] = k THEN <<k, v>> ELSE m[i]]
    ELSE Append(m, <<k, v>>)

NewRegistry ==
    [attributeI |-> 0, valueI |-> 0, namesMap |-> <<>>, valuesMap |-> <<>>]

keySkipsCounter(reg, k) ==
    LET after == IF ~MapHas(reg.namesMap, k)
                 THEN [reg EXCEPT !.namesMap = MapSet(@, k, AttrName(reg.attributeI))]
                 ELSE reg
    IN [reg |-> after, ret |-> MapGet(after.namesMap, k)]

\* key(key): the registry after the call, and the placeholder returned
key(reg, k) ==
    LET after == IF ~MapHas(reg.namesMap, k)
                 THEN [reg EXCEPT !.namesMap = MapSet(@, k, AttrName(reg.attributeI)),
                                  !.attributeI = @ + 1]
                 ELSE reg
    IN [reg |-> after, ret |-> MapGet(after.namesMap, k)]

valueSkipsCounter(reg, v) ==
    LET after == IF ~MapHas(reg.valuesMap, v)
                 THEN [reg EXCEPT !.valuesMap = MapSet(@, v, ValueName(reg.valueI))]
                 ELSE reg
    IN [reg |-> after, ret |-> MapGet(after.valuesMap, v)]

\* value(value): the registry after the call, and the placeholder returned
value(reg, v) ==
    LET after == IF ~MapHas(reg.valuesMap, v)
                 THEN [reg EXCEPT !.valuesMap = MapSet(@, v, ValueName(reg.valueI)),
                                  !.valueI = @ + 1]
                 ELSE reg
    IN [reg |-> after, ret |-> MapGet(after.valuesMap, v)]

mapToObjectDropsLast(thing) ==
    [p \in {thing[i][2] : i \in 1..Len(thing) - 1} |->
        LET last == CHOOSE i \in 1..Len(thing) - 1 :
                        /\ thing[i][2] = p
                        /\ \A j \in 1..Len(thing) - 1 : thing[j][2] = p => j <= i
        IN thing[last][1]]

\* Object.fromEntries of the swapped entries: a later entry with the same
\* placeholder overwrites an earlier one
mapToObject(thing) ==
    [p \in {thing[i][2] : i \in 1..Len(thing)} |->
        LET last == CHOOSE i \in 1..Len(thing) :
                        /\ thing[i][2] = p
                        /\ \A j \in 1..Len(thing) : thing[j][2] = p => j <= i
        IN thing[last][1]]

get(reg) ==
    [ExpressionAttributeNames |-> mapToObject(reg.namesMap),
     ExpressionAttributeValues |-> mapToObject(reg.valuesMap)]

\* the map over Object.entries(item): item is the sequence of its entries
RECURSIVE Clauses(_, _, _)
Clauses(reg, entries, acc) ==
    IF entries = <<>>
    THEN [reg |-> reg, clauses |-> acc]
    ELSE LET k == key(reg, entries[1][1])
             v == value(k.reg, entries[1][2])
         IN Clauses(v.reg, Tail(entries), Append(acc, <<k.ret, v.ret>>))

getDDBUpdateExpressionSharedRegistry(item) ==
    LET used == value(key(NewRegistry, "id").reg, Prim("book-0")).reg
        built == Clauses(used, item, <<>>)
        maps == get(built.reg)
    IN [UpdateExpression |-> [prefix |-> "set", clauses |-> built.clauses],
        ExpressionAttributeNames |-> maps.ExpressionAttributeNames,
        ExpressionAttributeValues |-> maps.ExpressionAttributeValues]

getDDBUpdateExpressionReversed(item) ==
    LET built == Clauses(NewRegistry, item, <<>>)
        maps == get(built.reg)
        n == Len(built.clauses)
    IN [UpdateExpression |->
            [prefix |-> "set",
             clauses |-> [i \in 1..n |-> built.clauses[n + 1 - i]]],
        ExpressionAttributeNames |-> maps.ExpressionAttributeNames,
        ExpressionAttributeValues |-> maps.ExpressionAttributeValues]

\* `set ${clauses.join(", ")}` with the registry's snapshot
getDDBUpdateExpression(item) ==
    LET built == Clauses(NewRegistry, item, <<>>)
        maps == get(built.reg)
    IN [UpdateExpression |-> [prefix |-> "set", clauses |-> built.clauses],
        ExpressionAttributeNames |-> maps.ExpressionAttributeNames,
        ExpressionAttributeValues |-> maps.ExpressionAttributeValues]

-----------------------------------------------------------------------------
(* Errors *)

\* error.metadata / the metadata argument: undefined, or an object
NoMetadata == [defined |-> FALSE]
EmptyMetadata == [defined |-> TRUE]
KeysMetadata(old, new) ==
    [defined |-> TRUE, oldPrimaryKey |-> old, newPrimaryKey |-> new]

\* new Error(message): it has no cause, operation or metadata property
Error(message) ==
    [name |-> "Error", message |-> message, cause |-> Undefined,
     operation |-> Undefined, metadata |-> NoMetadata]

\* what db.send rejects with; an SDK exception has none of the three
\* properties either (its own are name, message, $fault, $metadata)
StoreError(n) ==
    [name |-> n, message |-> <<n>>, cause |-> Undefined,
     operation |-> Undefined, metadata |-> NoMetadata]

NoError == [name |-> "none", message |-> <<>>, cause |-> Undefined,
            operation |-> Undefined, metadata |-> NoMetadata]

\* constructor(message, {cause, operation, metadata} = {}): the three are
\* read off the second argument; an error is named by its name here
DatabaseOperationError(message, options) ==
    [name |-> "DatabaseOperationError", message |-> message,
     cause |-> options.cause, operation |-> options.operation,
     metadata |-> options.metadata]

handleDynamoDBErrorLogsOnly(error, action, metadata) ==
    [threw |-> FALSE, error |-> error]

\* handleDynamoDBError: whether it threw, and what
handleDynamoDBError(error, action, metadata) ==
    [threw |-> TRUE,
     error |-> DatabaseOperationError(<<"Error during ", action>>, error)]

-----------------------------------------------------------------------------
(* The store *)

KeyOf(item) == [partitionKey |-> item.partitionKey, sortKey |-> item.sortKey]

IndexOfKey(tbl, k) ==
    IF \E i \in 1..Len(tbl) : KeyOf(tbl[i]) = k
    THEN CHOOSE i \in 1..Len(tbl) : KeyOf(tbl[i]) = k
    ELSE 0

\* an item that holds only its key
BareItem(k) ==
    [partitionKey |-> k.partitionKey, sortKey |-> k.sortKey,
     parentId |-> Undefined, partitionKeyAttribute |-> Undefined]

\* the items a Scan or a Query command selects, in the table's order
Items(st, command) ==
    SelectSeq(st[command.TableName],
              LAMBDA item : item[command.attribute] = command.pkValue)

\* SET #n = :v, ... on one item
RECURSIVE Assign(_, _, _)
Assign(item, update, clauses) ==
    IF clauses = <<>>
    THEN item
    ELSE LET attribute == update.ExpressionAttributeNames[clauses[1][1]]
             val == update.ExpressionAttributeValues[clauses[1][2]]
         IN Assign([item EXCEPT ![attribute] = val.content], update, Tail(clauses))

PutItem(tbl, item) ==
    LET i == IndexOfKey(tbl, KeyOf(item))
    IN IF i = 0 THEN Append(tbl, item) ELSE [tbl EXCEPT ![i] = item]

\* an Update of a key that holds no item creates the item
UpdateItem(tbl, update) ==
    LET i == IndexOfKey(tbl, update.Key)
        old == IF i = 0 THEN BareItem(update.Key) ELSE tbl[i]
        new == Assign(old, update, update.UpdateExpression.clauses)
    IN IF i = 0 THEN Append(tbl, new) ELSE [tbl EXCEPT ![i] = new]

DeleteItem(tbl, k) == SelectSeq(tbl, LAMBDA item : KeyOf(item) # k)

ApplyOperation(st, op) ==
    IF "Put" \in DOMAIN op
    THEN [st EXCEPT ![op.Put.TableName] = PutItem(@, op.Put.Item)]
    ELSE IF "Update" \in DOMAIN op
    THEN [st EXCEPT ![op.Update.TableName] = UpdateItem(@, op.Update)]
    ELSE IF "Delete" \in DOMAIN op
    THEN [st EXCEPT ![op.Delete.TableName] = DeleteItem(@, op.Delete.Key)]
    ELSE st

RECURSIVE ApplyAll(_, _)
ApplyAll(st, ops) ==
    IF ops = <<>> THEN st ELSE ApplyAll(ApplyOperation(st, ops[1]), Tail(ops))

\* the parameters of an operation of a batch, whatever its kind
ParamsOf(op) == op[CHOOSE kind \in DOMAIN op : TRUE]

\* the store's check of an operation's ConditionExpression "#a = :expected"
\* against the item under the operation's key; an operation without one
\* passes
ConditionHolds(st, op) ==
    LET params == ParamsOf(op)
        k == IF "Key" \in DOMAIN params THEN params.Key ELSE KeyOf(params.Item)
        i == IndexOfKey(st[params.TableName], k)
    IN IF "ConditionExpression" \notin DOMAIN params
       THEN TRUE
       ELSE /\ i # 0
            /\ st[params.TableName][i][params.ConditionExpression.attribute]
                   = params.ConditionExpression.expected

\* a TransactWriteCommand can only commit when every condition holds
ConditionsHold(st, command) ==
    \A i \in 1..Len(command.TransactItems) :
        ConditionHolds(st, command.TransactItems[i])

TransactWriteOneByOne(st, command, committed) ==
    IF committed \/ command.TransactItems = <<>>
    THEN ApplyAll(st, command.TransactItems)
    ELSE ApplyOperation(st, command.TransactItems[1])

\* the store's content after one TransactWriteCommand: the whole batch is
\* one command, applied if the store commits it and not at all otherwise
TransactWrite(st, command, committed) ==
    IF committed THEN ApplyAll(st, command.TransactItems) ELSE st

-----------------------------------------------------------------------------
(* Repository: the commands it builds *)

\* params of scanTable: FilterExpression "#pk = :pkValue", #pk = partitionKey
scanTable(partitionKey) ==
    [cmd |-> "Scan", TableName |-> tableName, attribute |-> "partitionKey",
     pkValue |-> partitionKey]

\* params of queryGSI: KeyConditionExpression "#pk = :pkValue" on the index,
\* #pk = partitionKeyAttribute
queryGSI(partitionKey, gsiName) ==
    [cmd |-> "Query", TableName |-> tableName, IndexName |-> gsiName,
     attribute |-> "partitionKeyAttribute", pkValue |-> partitionKey]

queryRelatedItemsIgnoresUseGSI(partitionKey, useGSI, gsiName) ==
    IF gsiName # Undefined /\ gsiName # ""
    THEN queryGSI(partitionKey, gsiName)
    ELSE scanTable(partitionKey)

\* the command queryRelatedItems sends; gsiName is falsy when undefined or ""
queryRelatedItems(partitionKey, useGSI, gsiName) ==
    IF useGSI /\ gsiName # Undefined /\ gsiName # ""
    THEN queryGSI(partitionKey, gsiName)
    ELSE scanTable(partitionKey)

planWithCondition(relatedItems, newPrimaryKey, config) ==
    [i \in 1..Len(relatedItems) |->
        LET item == relatedItems[i]
            expr == getDDBUpdateExpression(
                        << <<"parentId", Prim(newPrimaryKey.partitionKey)>> >>)
        IN [Update |->
              [TableName |-> config.tableName,
               Key |-> [partitionKey |-> item.partitionKey,
                        sortKey |-> item.sortKey],
               ConditionExpression |->
                   [attribute |-> "parentId", expected |-> item.parentId],
               UpdateExpression |-> expr.UpdateExpression,
               ExpressionAttributeNames |-> expr.ExpressionAttributeNames,
               ExpressionAttributeValues |-> expr.ExpressionAttributeValues]]]

planInReverse(relatedItems, newPrimaryKey, config) ==
    [i \in 1..Len(relatedItems) |->
        LET item == relatedItems[Len(relatedItems) + 1 - i]
            expr == getDDBUpdateExpression(
                        << <<"parentId", Prim(newPrimaryKey.partitionKey)>> >>)
        IN [Update |->
              [TableName |-> config.tableName,
               Key |-> [partitionKey |-> item.partitionKey,
                        sortKey |-> item.sortKey],  \* item.sortKey ?? undefined
               UpdateExpression |-> expr.UpdateExpression,
               ExpressionAttributeNames |-> expr.ExpressionAttributeNames,
               ExpressionAttributeValues |-> expr.ExpressionAttributeValues]]]

\* the relatedItems.map of prepareCascadeUpdateParams
plan(relatedItems, newPrimaryKey, config) ==
    [i \in 1..Len(relatedItems) |->
        LET item == relatedItems[i]
            expr == getDDBUpdateExpression(
                        << <<"parentId", Prim(newPrimaryKey.partitionKey)>> >>)
        IN [Update |->
              [TableName |-> config.tableName,
               Key |-> [partitionKey |-> item.partitionKey,
                        sortKey |-> item.sortKey],  \* item.sortKey ?? undefined
               UpdateExpression |-> expr.UpdateExpression,
               ExpressionAttributeNames |-> expr.ExpressionAttributeNames,
               ExpressionAttributeValues |-> expr.ExpressionAttributeValues]]]

\* { ...op.Put, TableName: this.tableName } and the like
WithTableName(operation) ==
    [f \in DOMAIN operation \cup {"TableName"} |->
        IF f = "TableName" THEN tableName ELSE operation[f]]

\* the operations?.map of mutate: ...op, with Put, Update and Delete
\* rebuilt; a kind the operation lacks maps to undefined, which is left out
stamp(operations) ==
    [i \in 1..Len(operations) |->
        [kind \in DOMAIN operations[i] |->
            IF kind \in {"Put", "Update", "Delete"}
            THEN WithTableName(operations[i][kind])
            ELSE operations[i][kind]]]

TransactWriteCommand(items) == [cmd |-> "TransactWrite", TransactItems |-> items]

TruthyWhenPresent(config, field) == field \in DOMAIN config

\* config.queryRelatedItems as a condition
Truthy(config, field) == field \in DOMAIN config /\ config[field]

SpreadFirstWins(first, second) == first @@ second

\* { ...otherAttributes, ...newPrimaryKey }
Spread(first, second) == second @@ first

\* relatedItems: null, or a list
Null == [null |-> TRUE]
List(items) == [null |-> FALSE, items |-> items]

Returned(newItem, relatedItems) ==
    [status |-> "returned", error |-> NoError, newItem |-> newItem,
     relatedItems |-> relatedItems]
Threw(error) ==
    [status |-> "threw", error |-> error, newItem |-> <<>>, relatedItems |-> Null]
Pending ==
    [status |-> "pending", error |-> NoError, newItem |-> <<>>, relatedItems |-> Null]

-----------------------------------------------------------------------------
(* Initial states and inputs *)

Item(pk, sk, parent, gsi) ==
    [partitionKey |-> pk, sortKey |-> sk, parentId |-> parent,
     partitionKeyAttribute |-> gsi]

\* what BooksTable may hold: the parent, a second item of its partition, and
\* items that refer to the parent
BookItems ==
    { Item("book-1", Undefined, Undefined, Undefined),
      Item("book-1", "s1", Undefined, Undefined),
      Item("rev-1", Undefined, "book-1", "book-1"),
      Item("rev-2", "s1", "book-2", "book-2") }

\* what BookReviewsTable may hold
ReviewItems ==
    { Item("rev-1", Undefined, "book-1", Undefined),
      Item("rev-2", "s1", "book-1", Undefined),
      Item("book-1", Undefined, "book-0", Undefined) }

\* a table holds one item per key
TablesOf(items) ==
    { t \in BoundedSeq(items, MaxItems) :
        \A i, j \in 1..Len(t) : KeyOf(t[i]) = KeyOf(t[j]) => i = j }

OldKeys == { [partitionKey |-> "book-1"], [partitionKey |-> "book-2"] }
NewKeys == { [partitionKey |-> "book-2"],
             [partitionKey |-> "book-3", sortKey |-> "s1"] }
OtherAttributes == { [title |-> "Updated Book Title"],
                     [title |-> "Updated Book Title", partitionKey |-> "book-9"] }
Configs ==
    { [tableName |-> t] : t \in Tables } \cup
    { [tableName |-> t, queryRelatedItems |-> q] : t \in Tables, q \in BOOLEAN }

SetParent(p) == getDDBUpdateExpression(<< <<"parentId", Prim(p)>> >>)

PutOwnTable ==
    [Put |-> [TableName |-> "BookReviewsTable",
              Item |-> Item("rev-3", Undefined, "book-1", Undefined)]]
PutNoTable ==
    [Put |-> [Item |-> Item("book-4", Undefined, Undefined, Undefined)]]
UpdateOwnTable ==
    [Update |-> [TableName |-> "BookReviewsTable",
                 Key |-> [partitionKey |-> "rev-1", sortKey |-> Undefined],
                 UpdateExpression |-> SetParent("book-2").UpdateExpression,
                 ExpressionAttributeNames |-> SetParent("book-2").ExpressionAttributeNames,
                 ExpressionAttributeValues |-> SetParent("book-2").ExpressionAttributeValues]]
DeleteNoTable ==
    [Delete |-> [Key |-> [partitionKey |-> "book-1", sortKey |-> Undefined]]]

OperationLists ==
    { <<>>, <<PutOwnTable>>, <<PutNoTable>>, <<UpdateOwnTable, DeleteNoTable>>,
      <<PutNoTable, UpdateOwnTable>> }

NoArgs == [op |-> "none"]

Init ==
    /\ store \in { [t \in Tables |-> IF t = tableName THEN b ELSE r] :
                     b \in TablesOf(BookItems), r \in TablesOf(ReviewItems) }
    /\ pc = [c \in CallIds |-> "idle"]
    /\ args = [c \in CallIds |-> NoArgs]
    /\ scanned = [c \in CallIds |-> <<>>]
    /\ sent = [c \in CallIds |-> <<>>]
    /\ replies = [c \in CallIds |-> <<>>]
    /\ result = [c \in CallIds |-> Pending]
    /\ pre = [c \in CallIds |-> store]
    /\ registry = NewRegistry
    /\ log = <<>>

-----------------------------------------------------------------------------
(* Repository.mutate *)

\* the call up to its first await: the empty check, the stamping, db.send
Mutate(c, operations) ==
    /\ pc[c] = "idle"
    /\ args' = [args EXCEPT ![c] = [op |-> "mutate", operations |-> operations]]
    /\ pre' = [pre EXCEPT ![c] = store]
    /\ IF Len(operations) = 0
       THEN LET error == Error(<<"No operations provided for transaction.">>)
                handled == handleDynamoDBError(error, "mutate", EmptyMetadata)
            IN /\ result' = [result EXCEPT ![c] =
                     IF handled.threw THEN Threw(handled.error) ELSE Threw(error)]
               /\ pc' = [pc EXCEPT ![c] = "done"]
               /\ UNCHANGED sent
       ELSE /\ sent' = [sent EXCEPT ![c] =
                     Append(@, TransactWriteCommand(stamp(operations)))]
            /\ pc' = [pc EXCEPT ![c] = "mutateTransact"]
            /\ UNCHANGED result
    /\ UNCHANGED <<store, scanned, replies, registry, log>>

\* the store commits the batch; mutate returns
MutateCommits(c) ==
    /\ pc[c] = "mutateTransact"
    /\ ConditionsHold(store, Last(sent[c]))
    /\ store' = TransactWrite(store, Last(sent[c]), TRUE)
    /\ replies' = [replies EXCEPT ![c] = Append(@, "ok")]
    /\ result' = [result EXCEPT ![c] = Returned(<<>>, Null)]
    /\ pc' = [pc EXCEPT ![c] = "done"]
    /\ UNCHANGED <<args, scanned, sent, pre, registry, log>>

MutateRejectedRetries(c) ==
    /\ pc[c] = "mutateTransact"
    /\ store' = TransactWrite(store, Last(sent[c]), FALSE)
    /\ replies' = [replies EXCEPT ![c] = Append(@, "rejected")]
    /\ IF Len(sent[c]) < 2
       THEN /\ sent' = [sent EXCEPT ![c] = Append(@, Last(sent[c]))]
            /\ UNCHANGED <<result, pc>>
       ELSE /\ result' = [result EXCEPT ![c] =
                   Threw(handleDynamoDBError(
                             StoreError("TransactionCanceledException"),
                             "mutate", EmptyMetadata).error)]
            /\ pc' = [pc EXCEPT ![c] = "done"]
            /\ UNCHANGED sent
    /\ UNCHANGED <<args, scanned, pre, registry, log>>

\* the store rejects the batch; the catch block runs
MutateRejected(c) ==
    /\ pc[c] = "mutateTransact"
    /\ store' = TransactWrite(store, Last(sent[c]), FALSE)
    /\ replies' = [replies EXCEPT ![c] = Append(@, "rejected")]
    /\ LET error == StoreError("TransactionCanceledException")
           handled == handleDynamoDBError(error, "mutate", EmptyMetadata)
       IN result' = [result EXCEPT ![c] =
              IF handled.threw THEN Threw(handled.error) ELSE Threw(error)]
    /\ pc' = [pc EXCEPT ![c] = "done"]
    /\ UNCHANGED <<args, scanned, sent, pre, registry, log>>

-----------------------------------------------------------------------------
(* Repository.replacePrimaryKey *)

\* the call up to its first await: prepareCascadeUpdateParams sends the
\* scan of queryRelatedItems(oldPrimaryKey.partitionKey, false)
ReplacePrimaryKey(c, oldPrimaryKey, newPrimaryKey, otherAttributes, config) ==
    /\ pc[c] = "idle"
    /\ args' = [args EXCEPT ![c] =
           [op |-> "replacePrimaryKey", oldPrimaryKey |-> oldPrimaryKey,
            newPrimaryKey |-> newPrimaryKey, otherAttributes |-> otherAttributes,
            config |-> config]]
    /\ pre' = [pre EXCEPT ![c] = store]
    /\ sent' = [sent EXCEPT ![c] =
           Append(@, queryRelatedItems(oldPrimaryKey.partitionKey, FALSE, Undefined))]
    /\ pc' = [pc EXCEPT ![c] = "planScan"]
    /\ UNCHANGED <<store, scanned, replies, result, registry, log>>

PlanScanRespondsNoAwait(c) ==
    /\ pc[c] = "planScan"
    /\ LET relatedItems == Items(store, Last(sent[c]))
           transactItems == plan(relatedItems, args[c].newPrimaryKey, args[c].config)
       IN /\ scanned' = [scanned EXCEPT ![c] = relatedItems]
          /\ sent' = [sent EXCEPT ![c] =
                 IF Truthy(args[c].config, "queryRelatedItems")
                 THEN @ \o <<TransactWriteCommand(transactItems),
                             queryRelatedItems(args[c].oldPrimaryKey.partitionKey,
                                               TRUE, args[c].config.tableName)>>
                 ELSE Append(@, TransactWriteCommand(transactItems))]
    /\ replies' = [replies EXCEPT ![c] = Append(@, "ok")]
    /\ pc' = [pc EXCEPT ![c] =
           IF Truthy(args[c].config, "queryRelatedItems") THEN "bothInFlight"
           ELSE "transact"]
    /\ UNCHANGED <<store, args, result, pre, registry, log>>

\* the scan is served: the plan is built and sent as one TransactWriteCommand
PlanScanResponds(c) ==
    /\ pc[c] = "planScan"
    /\ LET relatedItems == Items(store, Last(sent[c]))
           transactItems == plan(relatedItems, args[c].newPrimaryKey, args[c].config)
       IN /\ scanned' = [scanned EXCEPT ![c] = relatedItems]
          /\ sent' = [sent EXCEPT ![c] = Append(@, TransactWriteCommand(transactItems))]
    /\ replies' = [replies EXCEPT ![c] = Append(@, "ok")]
    /\ pc' = [pc EXCEPT ![c] = "transact"]
    /\ UNCHANGED <<store, args, result, pre, registry, log>>

PlanScanFailsSwallowed(c) ==
    /\ pc[c] = "planScan"
    /\ replies' = [replies EXCEPT ![c] = Append(@, "rejected")]
    /\ sent' = [sent EXCEPT ![c] = Append(@, TransactWriteCommand(<<>>))]
    /\ pc' = [pc EXCEPT ![c] = "transact"]
    /\ UNCHANGED <<store, args, scanned, result, pre, registry, log>>

\* the scan is rejected: scanTable logs and rethrows, nothing catches it
PlanScanFails(c) ==
    /\ pc[c] = "planScan"
    /\ replies' = [replies EXCEPT ![c] = Append(@, "rejected")]
    /\ result' = [result EXCEPT ![c] = Threw(StoreError("ScanException"))]
    /\ pc' = [pc EXCEPT ![c] = "done"]
    /\ UNCHANGED <<store, args, scanned, sent, pre, registry, log>>

\* the code after the try/catch around the transactional write: the optional
\* read of queryRelatedItems(oldPrimaryKey.partitionKey, true, config.tableName),
\* or the return
AfterTransact(c) ==
    IF Truthy(args[c].config, "queryRelatedItems")
    THEN /\ sent' = [sent EXCEPT ![c] =
                Append(@, queryRelatedItems(args[c].oldPrimaryKey.partitionKey,
                                            TRUE, args[c].config.tableName))]
         /\ pc' = [pc EXCEPT ![c] = "postRead"]
         /\ UNCHANGED result
    ELSE /\ result' = [result EXCEPT ![c] =
                Returned(Spread(args[c].otherAttributes, args[c].newPrimaryKey), Null)]
         /\ pc' = [pc EXCEPT ![c] = "done"]
         /\ UNCHANGED sent

\* the store commits the plan
TransactCommits(c) ==
    /\ pc[c] = "transact"
    /\ ConditionsHold(store, Last(sent[c]))
    /\ store' = TransactWrite(store, Last(sent[c]), TRUE)
    /\ replies' = [replies EXCEPT ![c] = Append(@, "ok")]
    /\ AfterTransact(c)
    /\ UNCHANGED <<args, scanned, pre, registry, log>>

\* the store rejects the plan: the catch block calls handleDynamoDBError
TransactRejected(c) ==
    /\ pc[c] = "transact"
    /\ store' = TransactWrite(store, Last(sent[c]), FALSE)
    /\ replies' = [replies EXCEPT ![c] = Append(@, "rejected")]
    /\ LET handled == handleDynamoDBError(
                          StoreError("TransactionCanceledException"),
                          "replacePrimaryKey",
                          KeysMetadata(args[c].oldPrimaryKey, args[c].newPrimaryKey))
       IN IF handled.threw
          THEN /\ result' = [result EXCEPT ![c] = Threw(handled.error)]
               /\ pc' = [pc EXCEPT ![c] = "done"]
               /\ UNCHANGED sent
          ELSE AfterTransact(c)
    /\ UNCHANGED <<args, scanned, pre, registry, log>>

\* the read after the transaction is served: result.Items is returned
PostReadResponds(c) ==
    /\ pc[c] = "postRead"
    /\ replies' = [replies EXCEPT ![c] = Append(@, "ok")]
    /\ result' = [result EXCEPT ![c] =
           Returned(Spread(args[c].otherAttributes, args[c].newPrimaryKey),
                    List(Items(store, Last(sent[c]))))]
    /\ pc' = [pc EXCEPT ![c] = "done"]
    /\ UNCHANGED <<store, args, scanned, sent, pre, registry, log>>

PostReadFailsWrapped(c) ==
    /\ pc[c] = "postRead"
    /\ replies' = [replies EXCEPT ![c] = Append(@, "rejected")]
    /\ result' = [result EXCEPT ![c] =
           Threw(handleDynamoDBError(
                     StoreError("QueryException"), "replacePrimaryKey",
                     KeysMetadata(args[c].oldPrimaryKey, args[c].newPrimaryKey)).error)]
    /\ pc' = [pc EXCEPT ![c] = "done"]
    /\ UNCHANGED <<store, args, scanned, sent, pre, registry, log>>

\* the read after the transaction is rejected: queryGSI (or scanTable) logs
\* and rethrows
PostReadFails(c) ==
    /\ pc[c] = "postRead"
    /\ replies' = [replies EXCEPT ![c] = Append(@, "rejected")]
    /\ result' = [result EXCEPT ![c] =
           Threw(StoreError(IF Last(sent[c]).cmd = "Query"
                            THEN "QueryException" ELSE "ScanException"))]
    /\ pc' = [pc EXCEPT ![c] = "done"]
    /\ UNCHANGED <<store, args, scanned, sent, pre, registry, log>>

-----------------------------------------------------------------------------
(* Repository.queryRelatedItems, called from outside *)

\* the arguments of a call: useGSI and gsiName may be left out
QueryArguments ==
    LET keys == { "book-1", "book-2" }
        names == { "", "parentId-index" }
    IN { [partitionKey |-> p] : p \in keys } \cup
       { [partitionKey |-> p, useGSI |-> u] : p \in keys, u \in BOOLEAN } \cup
       { [partitionKey |-> p, gsiName |-> g] : p \in keys, g \in names } \cup
       { [partitionKey |-> p, useGSI |-> u, gsiName |-> g] :
             p \in keys, u \in BOOLEAN, g \in names }

\* useGSI: boolean = true
UseGSI(arguments) ==
    IF "useGSI" \in DOMAIN arguments THEN arguments.useGSI ELSE TRUE

\* gsiName?: string
GsiName(arguments) ==
    IF "gsiName" \in DOMAIN arguments THEN arguments.gsiName ELSE Undefined

\* the call up to its await: the command of queryGSI or scanTable is sent
QueryRelatedItems(c, arguments) ==
    /\ pc[c] = "idle"
    /\ args' = [args EXCEPT ![c] =
           [op |-> "queryRelatedItems", arguments |-> arguments]]
    /\ pre' = [pre EXCEPT ![c] = store]
    /\ sent' = [sent EXCEPT ![c] =
           Append(@, queryRelatedItems(arguments.partitionKey, UseGSI(arguments),
                                       GsiName(arguments)))]
    /\ pc' = [pc EXCEPT ![c] = "query"]
    /\ UNCHANGED <<store, scanned, replies, result, registry, log>>

\* the command is served: result.Items is returned
QueryRelatedItemsResponds(c) ==
    /\ pc[c] = "query"
    /\ replies' = [replies EXCEPT ![c] = Append(@, "ok")]
    /\ result' = [result EXCEPT ![c] =
           Returned(<<>>, List(Items(store, Last(sent[c]))))]
    /\ pc' = [pc EXCEPT ![c] = "done"]
    /\ UNCHANGED <<store, args, scanned, sent, pre, registry, log>>

\* the command is rejected: queryGSI or scanTable logs and rethrows
QueryRelatedItemsFails(c) ==
    /\ pc[c] = "query"
    /\ replies' = [replies EXCEPT ![c] = Append(@, "rejected")]
    /\ result' = [result EXCEPT ![c] =
           Threw(StoreError(IF Last(sent[c]).cmd = "Query"
                            THEN "QueryException" ELSE "ScanException"))]
    /\ pc' = [pc EXCEPT ![c] = "done"]
    /\ UNCHANGED <<store, args, scanned, sent, pre, registry, log>>

-----------------------------------------------------------------------------
(* One caller: a call of mutate, replacePrimaryKey or queryRelatedItems on
   any initial store *)

\* the calls in flight: one
Callers == {1}

Next ==
    \/ \E c \in Callers, ops \in OperationLists : Mutate(c, ops)
    \/ \E c \in Callers : MutateCommits(c)
    \/ \E c \in Callers : MutateRejected(c)
    \/ \E c \in Callers, old \in OldKeys, new \in NewKeys,
          other \in OtherAttributes, config \in Configs :
          ReplacePrimaryKey(c, old, new, other, config)
    \/ \E c \in Callers : PlanScanResponds(c)
    \/ \E c \in Callers : PlanScanFails(c)
    \/ \E c \in Callers : TransactCommits(c)
    \/ \E c \in Callers : TransactRejected(c)
    \/ \E c \in Callers : PostReadResponds(c)
    \/ \E c \in Callers : PostReadFails(c)
    \/ \E c \in Callers, arguments \in QueryArguments :
          QueryRelatedItems(c, arguments)
    \/ \E c \in Callers : QueryRelatedItemsResponds(c)
    \/ \E c \in Callers : QueryRelatedItemsFails(c)

Spec == Init /\ [][Next]_vars

-----------------------------------------------------------------------------
(* Two callers: replacePrimaryKey calls that run at the same time *)

\* what BooksTable may hold: items of the parent's partition, one of them
\* referring to the parent
PartitionItems ==
    { Item("book-1", Undefined, Undefined, Undefined),
      Item("book-1", "s1", "book-1", Undefined) }

ConcurrentConfigs ==
    { [tableName |-> tableName],
      [tableName |-> tableName, queryRelatedItems |-> TRUE] }

ConcurrentInit ==
    /\ store \in { [t \in Tables |-> IF t = tableName THEN b ELSE <<>>] :
                     b \in TablesOf(PartitionItems) }
    /\ pc = [c \in CallIds |-> "idle"]
    /\ args = [c \in CallIds |-> NoArgs]
    /\ scanned = [c \in CallIds |-> <<>>]
    /\ sent = [c \in CallIds |-> <<>>]
    /\ replies = [c \in CallIds |-> <<>>]
    /\ result = [c \in CallIds |-> Pending]
    /\ pre = [c \in CallIds |-> store]
    /\ registry = NewRegistry
    /\ log = <<>>

ConcurrentNext ==
    \/ \E c \in CallIds, old \in OldKeys, new \in NewKeys,
          config \in ConcurrentConfigs :
          ReplacePrimaryKey(c, old, new, [title |-> "Updated Book Title"], config)
    \/ \E c \in CallIds : PlanScanResponds(c)
    \/ \E c \in CallIds : PlanScanFails(c)
    \/ \E c \in CallIds : TransactCommits(c)
    \/ \E c \in CallIds : TransactRejected(c)
    \/ \E c \in CallIds : PostReadResponds(c)
    \/ \E c \in CallIds : PostReadFails(c)

ConcurrentSpec == ConcurrentInit /\ [][ConcurrentNext]_vars

-----------------------------------------------------------------------------
(* One registry: any sequence of key() and value() calls on it *)

RegistryNames == {"parentId", "title"}

\* two primitives, and two instances of one object content
RegistryValues ==
    { Prim("book-2"), Prim("book-3"), Obj(1, "{a:1}"), Obj(2, "{a:1}") }

RegistryInit ==
    /\ store = [t \in Tables |-> <<>>]
    /\ pc = [c \in CallIds |-> "idle"]
    /\ args = [c \in CallIds |-> NoArgs]
    /\ scanned = [c \in CallIds |-> <<>>]
    /\ sent = [c \in CallIds |-> <<>>]
    /\ replies = [c \in CallIds |-> <<>>]
    /\ result = [c \in CallIds |-> Pending]
    /\ pre = [c \in CallIds |-> store]
    /\ registry = NewRegistry
    /\ log = <<>>

CallKey(n) ==
    /\ Len(log) < MaxRegistryCalls
    /\ LET r == key(registry, n)
       IN /\ registry' = r.reg
          /\ log' = Append(log, [fn |-> "key", arg |-> n, ret |-> r.ret,
                                 before |-> registry, after |-> r.reg])
    /\ UNCHANGED storeVars

CallValue(v) ==
    /\ Len(log) < MaxRegistryCalls
    /\ LET r == value(registry, v)
       IN /\ registry' = r.reg
          /\ log' = Append(log, [fn |-> "value", arg |-> v, ret |-> r.ret,
                                 before |-> registry, after |-> r.reg])
    /\ UNCHANGED storeVars

\* get(): the snapshot is returned, the registry is not written
CallGet ==
    /\ Len(log) < MaxRegistryCalls
    /\ registry' = registry
    /\ log' = Append(log, [fn |-> "get", arg |-> "none", ret |-> get(registry),
                           before |-> registry, after |-> registry])
    /\ UNCHANGED storeVars

RegistryNext ==
    \/ \E n \in RegistryNames : CallKey(n)
    \/ \E v \in RegistryValues : CallValue(v)
    \/ CallGet

RegistrySpec == RegistryInit /\ [][RegistryNext]_vars

-----------------------------------------------------------------------------
(* Vocabulary of the properties *)

IsMutate(c) == args[c].op = "mutate"
IsReplace(c) == args[c].op = "replacePrimaryKey"
Finished(c) == pc[c] = "done"
ReturnedNormally(c) == Finished(c) /\ result[c].status = "returned"

\* the place of the transactional write among the commands of a call
TransactIndex(c) == IF IsMutate(c) THEN 1 ELSE 2

TransactSent(c) ==
    /\ args[c].op # "none"
    /\ Len(sent[c]) >= TransactIndex(c)

TransactRejectedBy(c) ==
    /\ TransactSent(c)
    /\ Len(replies[c]) >= TransactIndex(c)
    /\ replies[c][TransactIndex(c)] = "rejected"

\* the store served every command of the call
AllServed(c) == \A i \in 1..Len(replies[c]) : replies[c][i] = "ok"

\* every item of the store, with its table
ItemsOf(st) == UNION { { <<t, st[t][i]>> : i \in 1..Len(st[t]) } : t \in Tables }


-----------------------------------------------------------------------------
(* C1 *)

\* C1: after a successful replacePrimaryKey(oldKey, newKey) with a single
\* caller, every item whose parentId was oldKey.partitionKey before the call
\* now has parentId = newKey.partitionKey, and no item of the store has
\* parentId = oldKey.partitionKey.
C1_DependentsRepointed ==
    \A c \in CallIds :
        (IsReplace(c) /\ ReturnedNormally(c)
            /\ args[c].oldPrimaryKey.partitionKey # args[c].newPrimaryKey.partitionKey)
        => LET old == args[c].oldPrimaryKey.partitionKey
               new == args[c].newPrimaryKey.partitionKey
           IN /\ \A d \in ItemsOf(pre[c]) :
                    d[2].parentId = old
                    => \E e \in ItemsOf(store) :
                          /\ e[1] = d[1]
                          /\ KeyOf(e[2]) = KeyOf(d[2])
                          /\ e[2].parentId = new
              /\ \A e \in ItemsOf(store) : e[2].parentId # old

-----------------------------------------------------------------------------
(* C2 *)

\* C2: after a successful replacePrimaryKey of a parent stored under oldKey,
\* the repository's table holds an item under newKey and none under oldKey.
C2_ParentKeyReplaced ==
    \A c \in CallIds :
        (IsReplace(c) /\ ReturnedNormally(c)
            /\ args[c].oldPrimaryKey.partitionKey # args[c].newPrimaryKey.partitionKey
            /\ \E i \in 1..Len(pre[c][tableName]) :
                  pre[c][tableName][i].partitionKey = args[c].oldPrimaryKey.partitionKey)
        => /\ \E i \in 1..Len(store[tableName]) :
                 store[tableName][i].partitionKey = args[c].newPrimaryKey.partitionKey
           /\ \A i \in 1..Len(store[tableName]) :
                 store[tableName][i].partitionKey # args[c].oldPrimaryKey.partitionKey

-----------------------------------------------------------------------------
(* C3 *)

\* C3: once the store has rejected the transactional write of
\* replacePrimaryKey, the store holds exactly what it held before the call:
\* no part of the plan is applied.
C3_RejectedWriteChangesNothing ==
    \A c \in CallIds :
        (IsReplace(c) /\ TransactRejectedBy(c)) => store = pre[c]

\* a rejected plan that would have changed the store
C3_Witness ==
    \E c \in CallIds :
        /\ IsReplace(c) /\ TransactRejectedBy(c) /\ Finished(c)
        /\ Len(sent[c][2].TransactItems) >= 2
        /\ ApplyAll(pre[c], sent[c][2].TransactItems) # pre[c]

-----------------------------------------------------------------------------
(* C4 *)

\* C4: the plan built from a scan result of N items is N Update operations
\* in the scan's order; the i-th is keyed by the i-th item's partitionKey
\* and sortKey, targets config.tableName and sets parentId to
\* newKey.partitionKey.
C4_PlanFollowsScan ==
    \A c \in CallIds :
        (IsReplace(c) /\ TransactSent(c))
        => LET transactItems == sent[c][2].TransactItems
           IN /\ Len(transactItems) = Len(scanned[c])
              /\ \A i \in 1..Len(transactItems) :
                    /\ DOMAIN transactItems[i] = {"Update"}
                    /\ LET u == transactItems[i].Update
                       IN /\ u.TableName = args[c].config.tableName
                          /\ u.Key.partitionKey = scanned[c][i].partitionKey
                          /\ u.Key.sortKey = scanned[c][i].sortKey
                          /\ Len(u.UpdateExpression.clauses) = 1
                          /\ LET clause == u.UpdateExpression.clauses[1]
                             IN /\ u.ExpressionAttributeNames[clause[1]] = "parentId"
                                /\ u.ExpressionAttributeValues[clause[2]].content
                                       = args[c].newPrimaryKey.partitionKey

\* a plan for two scanned items with different keys, for another table
C4_Witness ==
    \E c \in CallIds :
        /\ IsReplace(c) /\ TransactSent(c)
        /\ Len(scanned[c]) = 2
        /\ scanned[c][1].sortKey # scanned[c][2].sortKey
        /\ args[c].config.tableName # tableName

-----------------------------------------------------------------------------
(* C5 *)

\* C5: mutate([]) fails with the empty-transaction error (the error the
\* empty check raises) and sends no command to the store.
C5_EmptyBatchRejected ==
    \A c \in CallIds :
        (IsMutate(c) /\ Finished(c) /\ args[c].operations = <<>>)
        => /\ result[c].status = "threw"
           /\ result[c].error = Error(<<"No operations provided for transaction.">>)
           /\ sent[c] = <<>>

-----------------------------------------------------------------------------
(* C6 *)

\* C6: a replacePrimaryKey whose planning scan returns no items, with
\* config.queryRelatedItems = true and every store call served, returns
\* normally with relatedItems equal to the empty list.
C6_NoDependentsReturnsEmptyList ==
    \A c \in CallIds :
        (IsReplace(c) /\ Finished(c) /\ AllServed(c)
            /\ Len(replies[c]) >= 1 /\ scanned[c] = <<>>
            /\ Truthy(args[c].config, "queryRelatedItems"))
        => /\ result[c].status = "returned"
           /\ result[c].relatedItems = List(<<>>)

-----------------------------------------------------------------------------
(* C7 *)

\* C7: whenever the store rejects the transactional write of mutate or
\* replacePrimaryKey, the call ends by raising a DatabaseOperationError; it
\* sends nothing more and never returns a result.
C7_RejectionRaised ==
    \A c \in CallIds :
        TransactRejectedBy(c)
        => /\ Finished(c)
           /\ result[c].status = "threw"
           /\ result[c].error.name = "DatabaseOperationError"
           /\ Len(sent[c]) = TransactIndex(c)

\* a replacePrimaryKey that asked for the read, with its write rejected
C7_Witness ==
    \E c \in CallIds :
        /\ IsReplace(c) /\ TransactRejectedBy(c)
        /\ Truthy(args[c].config, "queryRelatedItems")

-----------------------------------------------------------------------------
(* C8 *)

\* C8: the DatabaseOperationError raised for a rejected transactional write
\* has operation = the action's name, metadata = what the caller of
\* handleDynamoDBError supplied (the old and new keys for replacePrimaryKey),
\* and cause = the store's error.
C8_ErrorCarriesContext ==
    \A c \in CallIds :
        (TransactRejectedBy(c) /\ Finished(c) /\ result[c].status = "threw")
        => /\ result[c].error.operation = args[c].op
           /\ result[c].error.metadata =
                 (IF IsReplace(c)
                  THEN KeysMetadata(args[c].oldPrimaryKey, args[c].newPrimaryKey)
                  ELSE EmptyMetadata)
           /\ result[c].error.cause = "TransactionCanceledException"

-----------------------------------------------------------------------------
(* C9 *)

\* C9: an operation given to mutate with a table name of its own is sent to
\* the store with that table name.
C9_OwnTableNameKept ==
    \A c \in CallIds :
        (IsMutate(c) /\ TransactSent(c))
        => \A i \in 1..Len(args[c].operations) :
              \A kind \in DOMAIN args[c].operations[i] :
                 "TableName" \in DOMAIN args[c].operations[i][kind]
                 => sent[c][1].TransactItems[i][kind].TableName
                        = args[c].operations[i][kind].TableName

-----------------------------------------------------------------------------
(* C10 *)

SameCall(i, j) == log[i].fn = log[j].fn /\ log[i].arg = log[j].arg

\* the first call with the function and argument of call i
FirstOccurrence(i) ==
    CHOOSE j \in 1..i : SameCall(i, j) /\ \A m \in 1..(j - 1) : ~SameCall(i, m)

\* the distinct arguments given to call i's function up to call i
DistinctUpTo(i) ==
    { log[j].arg : j \in { m \in 1..i : log[m].fn = log[i].fn } }

Placeholder(fn, n) == IF fn = "key" THEN AttrName(n) ELSE ValueName(n)

\* C10: in any sequence of key(name) and value(v) calls on one registry, a
\* repeated argument gets the placeholder of its first occurrence and leaves
\* the registry unchanged, and the k-th distinct argument in first-seen order
\* gets #attr(k-1), respectively :value(k-1).
C10_PlaceholdersInFirstSeenOrder ==
    \A i \in { m \in 1..Len(log) : log[m].fn \in {"key", "value"} } :
        /\ log[i].ret = log[FirstOccurrence(i)].ret
        /\ FirstOccurrence(i) < i => log[i].after = log[i].before
        /\ FirstOccurrence(i) = i
           => log[i].ret = Placeholder(log[i].fn, Cardinality(DistinctUpTo(i)) - 1)

\* two distinct names and two distinct values, and a repeat of each
C10_Witness ==
    /\ registry.attributeI = 2
    /\ registry.valueI = 2
    /\ \E i \in 1..Len(log) : log[i].fn = "key" /\ FirstOccurrence(i) < i
    /\ \E i \in 1..Len(log) : log[i].fn = "value" /\ FirstOccurrence(i) < i

-----------------------------------------------------------------------------
(* C11 *)

\* the calls of one function among the logged calls
CallsOf(fn) == { i \in 1..Len(log) : log[i].fn = fn }

\* equal by structure: the same kind of value with the same content
StructurallyEqual(v, w) == v.kind = w.kind /\ v.content = w.content

\* C11: two values that are structurally equal, also as two distinct
\* instances, receive the same :valueN placeholder within one registry.
C11_StructuralEqualityShared ==
    \A i, j \in CallsOf("value") :
        StructurallyEqual(log[i].arg, log[j].arg) => log[i].ret = log[j].ret

-----------------------------------------------------------------------------
(* C12 *)

Registered(fn) == { log[i].arg : i \in CallsOf(fn) }

\* C12: in every registry state, two distinct names never share a
\* placeholder and two distinct values never share one, and the snapshot
\* get() holds exactly one entry for every name and value registered, which
\* maps its placeholder back to it.
C12_PlaceholdersInjective ==
    /\ \A fn \in {"key", "value"} :
          \A i, j \in CallsOf(fn) :
              log[i].arg # log[j].arg => log[i].ret # log[j].ret
    /\ LET snapshot == get(registry)
       IN /\ Cardinality(DOMAIN snapshot.ExpressionAttributeNames)
                 = Cardinality(Registered("key"))
          /\ Cardinality(DOMAIN snapshot.ExpressionAttributeValues)
                 = Cardinality(Registered("value"))
          /\ \A i \in CallsOf("key") :
                /\ log[i].ret \in DOMAIN snapshot.ExpressionAttributeNames
                /\ snapshot.ExpressionAttributeNames[log[i].ret] = log[i].arg
          /\ \A i \in CallsOf("value") :
                /\ log[i].ret \in DOMAIN snapshot.ExpressionAttributeValues
                /\ snapshot.ExpressionAttributeValues[log[i].ret] = log[i].arg

\* two names and three values registered, two of them instances of one content
C12_Witness ==
    /\ Cardinality(Registered("key")) = 2
    /\ Cardinality(Registered("value")) = 3
    /\ \E v, w \in Registered("value") : v # w /\ StructurallyEqual(v, w)

-----------------------------------------------------------------------------
(* C20 *)

\* C20: get() leaves the registry as it was (namesMap, valuesMap, attributeI
\* and valueI), and what it returns is the inverse of the two allocation
\* maps: every placeholder allocated so far, mapped to its name or value.
C20_GetIsPureInverse ==
    \A i \in CallsOf("get") :
        /\ log[i].after = log[i].before
        /\ DOMAIN log[i].ret.ExpressionAttributeNames
               = { AttrName(n) : n \in 0..(log[i].before.attributeI - 1) }
        /\ DOMAIN log[i].ret.ExpressionAttributeValues
               = { ValueName(n) : n \in 0..(log[i].before.valueI - 1) }
        /\ \A m \in 1..(i - 1) :
              /\ log[m].fn = "key"
                 => log[i].ret.ExpressionAttributeNames[log[m].ret] = log[m].arg
              /\ log[m].fn = "value"
                 => log[i].ret.ExpressionAttributeValues[log[m].ret] = log[m].arg
        /\ \A m \in (i + 1)..Len(log) :
              log[m].fn \in {"key", "value"} /\ FirstOccurrence(m) = m
              => log[m].ret = Placeholder(log[m].fn, Cardinality(DistinctUpTo(m)) - 1)

\* a get() between allocations: two names and a value before it, a new
\* value after it
C20_Witness ==
    \E i \in CallsOf("get") :
        /\ log[i].before.attributeI = 2
        /\ log[i].before.valueI = 1
        /\ \E m \in (i + 1)..Len(log) : log[m].fn = "value" /\ FirstOccurrence(m) = m

-----------------------------------------------------------------------------
(* getDDBUpdateExpression on any item *)

ItemNames == {"parentId", "title", "author", "price"}

\* Object.entries(item): the attributes in insertion order, each name once
ItemEntries ==
    { e \in BoundedSeq(ItemNames \X RegistryValues, MaxAttributes) :
        \A i, j \in 1..Len(e) : e[i][1] = e[j][1] => i = j }

GetDDBUpdateExpression(item) ==
    /\ log = <<>>
    /\ log' = <<[fn |-> "getDDBUpdateExpression", arg |-> item,
                 ret |-> getDDBUpdateExpression(item)]>>
    /\ UNCHANGED <<storeVars, registry>>

\* the relatedItems.map of prepareCascadeUpdateParams on any scan result:
\* one getDDBUpdateExpression call for each item
PrepareCascadeUpdateParams(relatedItems, newPrimaryKey, config) ==
    /\ log = <<>>
    /\ log' = <<[fn |-> "prepareCascadeUpdateParams",
                 arg |-> [relatedItems |-> relatedItems,
                          newPrimaryKey |-> newPrimaryKey, config |-> config],
                 ret |-> plan(relatedItems, newPrimaryKey, config)]>>
    /\ UNCHANGED <<storeVars, registry>>

ExpressionNext ==
    \/ \E item \in ItemEntries : GetDDBUpdateExpression(item)
    \/ \E relatedItems \in TablesOf(BookItems), newPrimaryKey \in NewKeys,
          config \in Configs :
          PrepareCascadeUpdateParams(relatedItems, newPrimaryKey, config)

ExpressionSpec == RegistryInit /\ [][ExpressionNext]_vars

-----------------------------------------------------------------------------
(* C19 *)

\* the place of the k-th value of an item among its distinct values, in
\* first-seen order
ValueRank(item, k) ==
    LET first == CHOOSE m \in 1..k :
                     /\ item[m][2] = item[k][2]
                     /\ \A n \in 1..(m - 1) : item[n][2] # item[k][2]
    IN Cardinality({ item[n][2] : n \in 1..first })

\* the clauses are those of the item's attributes, in the item's order: the
\* k-th pairs the placeholder of the k-th name with that of the k-th value
ClausesInOrder(item, expression) ==
    /\ Len(expression.UpdateExpression.clauses) = Len(item)
    /\ \A k \in 1..Len(item) :
          LET clause == expression.UpdateExpression.clauses[k]
          IN /\ clause = <<AttrName(k - 1), ValueName(ValueRank(item, k) - 1)>>
             /\ expression.ExpressionAttributeNames[clause[1]] = item[k][1]
             /\ expression.ExpressionAttributeValues[clause[2]] = item[k][2]

\* C19 as stated: for an item with attributes (n1,v1),...,(nk,vk) the
\* expression is the prefix SET followed by the clauses
\* <key(ni)> = <value(vi)> for i = 1..k in that order.
C19_SetPrefixUpperCase ==
    \A i \in CallsOf("getDDBUpdateExpression") :
        /\ log[i].ret.UpdateExpression.prefix = "SET"
        /\ ClausesInOrder(log[i].arg, log[i].ret)

\* C19 as amended: the same, with the prefix the code writes, set in lower
\* case.
C19_ClausesInInsertionOrder ==
    \A i \in CallsOf("getDDBUpdateExpression") :
        /\ log[i].ret.UpdateExpression.prefix = "set"
        /\ ClausesInOrder(log[i].arg, log[i].ret)

\* an item of two attributes that hold different values
C19_Witness ==
    \E i \in CallsOf("getDDBUpdateExpression") :
        /\ Len(log[i].arg) = 2
        /\ log[i].arg[1][2] # log[i].arg[2][2]

-----------------------------------------------------------------------------
(* C13 *)

\* the commands of a call the store has not answered yet
InFlight(c) == Len(sent[c]) - Len(replies[c])

\* C13: within one replacePrimaryKey call the read after the transaction is
\* sent only once the transactional write has been answered: the write is
\* the command before it, at most one command of the call is in flight at
\* any time, and the read never comes before the write.
C13_PostReadAfterWriteCompletes ==
    \A c \in CallIds :
        IsReplace(c)
        => /\ InFlight(c) \in {0, 1}
           /\ \A i \in 1..Len(sent[c]) :
                 (i > 1 /\ sent[c][i].cmd \in {"Query", "Scan"})
                 => /\ sent[c][i - 1].cmd = "TransactWrite"
                    /\ Len(replies[c]) >= i - 1

\* the read is in flight after a write that updated something
C13_Witness ==
    \E c \in CallIds :
        /\ IsReplace(c)
        /\ pc[c] = "postRead"
        /\ Len(sent[c]) = 3
        /\ Len(replies[c]) = 2
        /\ sent[c][2].TransactItems # <<>>

-----------------------------------------------------------------------------
(* C14 *)

\* the items the transaction of a replacePrimaryKey call updated, as the
\* store holds them now
UpdatedDependents(c) ==
    { it \in { store[args[c].config.tableName][i] :
                   i \in 1..Len(store[args[c].config.tableName]) } :
        \E k \in 1..Len(scanned[c]) : KeyOf(it) = KeyOf(scanned[c][k]) }

\* C14: with config.queryRelatedItems set and a single caller, the
\* relatedItems a successful replacePrimaryKey returns are exactly the items
\* its transaction updated, as they are after the commit, each with
\* parentId = newKey.partitionKey.
C14_RelatedItemsAreUpdatedDependents ==
    \A c \in CallIds :
        (IsReplace(c) /\ ReturnedNormally(c)
            /\ Truthy(args[c].config, "queryRelatedItems"))
        => /\ ~result[c].relatedItems.null
           /\ LET items == result[c].relatedItems.items
              IN /\ { items[i] : i \in 1..Len(items) } = UpdatedDependents(c)
                 /\ \A i \in 1..Len(items) :
                       items[i].parentId = args[c].newPrimaryKey.partitionKey

-----------------------------------------------------------------------------
(* C16 *)

\* C16: when the transactional write of replacePrimaryKey commits and the
\* read after it fails, the call raises an error that is not the
\* DatabaseOperationError of a failed commit, and the committed updates
\* stay applied in the store.
C16_PostReadFailureDistinct ==
    \A c \in CallIds :
        (IsReplace(c) /\ Len(replies[c]) >= 3 /\ replies[c][2] = "ok"
            /\ replies[c][3] = "rejected")
        => /\ Finished(c)
           /\ result[c].status = "threw"
           /\ result[c].error.name # "DatabaseOperationError"
           /\ store = ApplyAll(pre[c], sent[c][2].TransactItems)

\* the read failed after a commit that changed the store
C16_Witness ==
    \E c \in CallIds :
        /\ IsReplace(c)
        /\ Len(replies[c]) = 3
        /\ replies[c][3] = "rejected"
        /\ store # pre[c]

-----------------------------------------------------------------------------
(* C17 *)

TransactWrites(c) == { i \in 1..Len(sent[c]) : sent[c][i].cmd = "TransactWrite" }

\* C17: a mutate or replacePrimaryKey call sends its whole batch in at most
\* one TransactWriteCommand, with the operations in the given order (those
\* of the caller for mutate, those of the plan for replacePrimaryKey), and a
\* command the store rejected is the last one the call sends.
C17_OneTransactNoRetry ==
    \A c \in CallIds :
        /\ Cardinality(TransactWrites(c)) <= 1
        /\ \A i \in TransactWrites(c) :
              /\ i = TransactIndex(c)
              /\ IsMutate(c) =>
                    sent[c][i].TransactItems = stamp(args[c].operations)
              /\ IsReplace(c) =>
                    sent[c][i].TransactItems =
                        plan(scanned[c], args[c].newPrimaryKey, args[c].config)
        /\ \A i \in 1..Len(replies[c]) :
              replies[c][i] = "rejected" => Len(sent[c]) = i

\* a batch of two operations was rejected
C17_Witness ==
    \E c \in CallIds :
        /\ IsMutate(c)
        /\ Finished(c)
        /\ Len(args[c].operations) = 2
        /\ replies[c] = <<"rejected">>

-----------------------------------------------------------------------------
(* C18 *)

IsQuery(c) == args[c].op = "queryRelatedItems"

\* C18: a queryRelatedItems call sends exactly one command: a query on the
\* given index when useGSI is true (or left out) and a non-empty index name
\* is given, a scan of the repository's table in every other case; and the
\* first command of a replacePrimaryKey call, its planning search, is always
\* a scan of the repository's own table.
C18_OneCallIndexOrScan ==
    \A c \in CallIds :
        /\ IsQuery(c) =>
              LET a == args[c].arguments
                  useGSI == "useGSI" \notin DOMAIN a \/ a.useGSI
                  named == "gsiName" \in DOMAIN a /\ a.gsiName # ""
              IN /\ Len(sent[c]) = 1
                 /\ sent[c][1].pkValue = a.partitionKey
                 /\ sent[c][1].TableName = tableName
                 /\ IF useGSI /\ named
                    THEN /\ sent[c][1].cmd = "Query"
                         /\ sent[c][1].IndexName = a.gsiName
                    ELSE sent[c][1].cmd = "Scan"
        /\ IsReplace(c) =>
              /\ sent[c][1].cmd = "Scan"
              /\ sent[c][1].TableName = tableName
              /\ sent[c][1].pkValue = args[c].oldPrimaryKey.partitionKey

\* a served call that named an index and asked not to use it
C18_Witness ==
    \E c \in CallIds :
        /\ IsQuery(c)
        /\ Finished(c)
        /\ result[c].status = "returned"
        /\ "useGSI" \in DOMAIN args[c].arguments
        /\ ~args[c].arguments.useGSI
        /\ "gsiName" \in DOMAIN args[c].arguments
        /\ args[c].arguments.gsiName = "parentId-index"

-----------------------------------------------------------------------------
(* C15 *)

\* C15: concurrent replacePrimaryKey calls are not serialized: no update of
\* a plan carries a condition, so a plan that waits at the store can commit
\* whatever other calls have committed since its scan (and a call that
\* scanned before another's commit and commits after it overwrites the
\* parentId of items that no longer hold its old key).
C15_StalePlanCommits ==
    \A c \in CallIds :
        (IsReplace(c) /\ pc[c] = "transact")
        => ConditionsHold(store, Last(sent[c]))

\* calls a and b rename the same old key to different new keys; b scanned an
\* item while it still held the old key as parentId, a committed its plan
\* for that item, and b's commit after it left the item with b's new key
C15_Witness ==
    \E a, b \in CallIds :
        /\ a # b
        /\ IsReplace(a) /\ IsReplace(b)
        /\ args[a].oldPrimaryKey = args[b].oldPrimaryKey
        /\ args[a].newPrimaryKey.partitionKey # args[b].newPrimaryKey.partitionKey
        /\ args[a].newPrimaryKey.partitionKey # args[a].oldPrimaryKey.partitionKey
        /\ Len(replies[a]) >= 2 /\ replies[a][2] = "ok"
        /\ Len(replies[b]) >= 2 /\ replies[b][2] = "ok"
        /\ \E i \in 1..Len(scanned[b]), j \in 1..Len(scanned[a]),
              k \in 1..Len(store[tableName]) :
              /\ scanned[b][i].parentId = args[b].oldPrimaryKey.partitionKey
              /\ KeyOf(scanned[a][j]) = KeyOf(scanned[b][i])
              /\ KeyOf(store[tableName][k]) = KeyOf(scanned[b][i])
              /\ store[tableName][k].parentId = args[b].newPrimaryKey.partitionKey

-----------------------------------------------------------------------------
(* C21 *)

\* C21: the Key of the Update planned for an item that has no sort key holds
\* the partitionKey field only: it has no sortKey field, whatever the value.
C21_NoSortKeyFieldOmitted ==
    \A c \in CallIds :
        (IsReplace(c) /\ TransactSent(c))
        => \A i \in 1..Len(scanned[c]) :
              scanned[c][i].sortKey = Undefined
              => DOMAIN sent[c][2].TransactItems[i].Update.Key = {"partitionKey"}

-----------------------------------------------------------------------------
(* C22 *)

\* C22: when the store rejects the planning scan of replacePrimaryKey, the
\* call ends by raising the store's error as it is; the scan is the only
\* command it ever sends (no transactional write, no read after it) and the
\* store holds what it held before the call.
C22_PlanScanFailurePropagates ==
    \A c \in CallIds :
        (IsReplace(c) /\ Len(replies[c]) >= 1 /\ replies[c][1] = "rejected")
        => /\ Finished(c)
           /\ result[c] = Threw(StoreError("ScanException"))
           /\ Len(sent[c]) = 1
           /\ sent[c][1].cmd = "Scan"
           /\ store = pre[c]

\* a rejected planning scan that would have found an item
C22_Witness ==
    \E c \in CallIds :
        /\ IsReplace(c)
        /\ replies[c] = <<"rejected">>
        /\ Items(store, sent[c][1]) # <<>>

-----------------------------------------------------------------------------
(* C23 *)

\* config.queryRelatedItems is there and true
QueryRelatedItemsSet(c) ==
    IF "queryRelatedItems" \in DOMAIN args[c].config
    THEN args[c].config.queryRelatedItems
    ELSE FALSE

\* C23: replacePrimaryKey reads after its transaction only if
\* config.queryRelatedItems is set: when it is left out or false the
\* transactional write is the last command of the call and a returned result
\* has relatedItems null; when the transactional write was rejected it is
\* the last command too.
C23_PostReadOnlyIfSet ==
    \A c \in CallIds :
        IsReplace(c)
        => /\ ~QueryRelatedItemsSet(c)
              => /\ Len(sent[c]) <= 2
                 /\ ReturnedNormally(c) => result[c].relatedItems = Null
           /\ TransactRejectedBy(c) => Len(sent[c]) = 2
           /\ Len(sent[c]) = 3 => QueryRelatedItemsSet(c)

\* a call with queryRelatedItems: false returned after a commit
C23_Witness ==
    \E c \in CallIds :
        /\ IsReplace(c)
        /\ ReturnedNormally(c)
        /\ "queryRelatedItems" \in DOMAIN args[c].config
        /\ ~args[c].config.queryRelatedItems
        /\ replies[c] = <<"ok", "ok">>

-----------------------------------------------------------------------------
(* C24 *)

\* item has every field of the records over and under; a field of both
\* holds the value of over
MergedOver(item, over, under) ==
    /\ DOMAIN item = DOMAIN over \cup DOMAIN under
    /\ \A f \in DOMAIN over : item[f] = over[f]
    /\ \A f \in DOMAIN under \ DOMAIN over : item[f] = under[f]

\* C24 as stated: the newItem of a successful replacePrimaryKey has every
\* field of newKey and of otherAttributes, a field of both holding the value
\* of otherAttributes, and depends on the caller's inputs only.
C24_OtherAttributesWin ==
    \A c \in CallIds :
        (IsReplace(c) /\ ReturnedNormally(c))
        => MergedOver(result[c].newItem, args[c].otherAttributes,
                      args[c].newPrimaryKey)

\* C24 as amended: the same, a field of both holding the value of newKey.
C24_NewKeyWins ==
    \A c \in CallIds :
        (IsReplace(c) /\ ReturnedNormally(c))
        => MergedOver(result[c].newItem, args[c].newPrimaryKey,
                      args[c].otherAttributes)

\* a successful call whose otherAttributes carry a partitionKey of their own
C24_Witness ==
    \E c \in CallIds :
        /\ IsReplace(c)
        /\ ReturnedNormally(c)
        /\ "partitionKey" \in DOMAIN args[c].otherAttributes
        /\ args[c].otherAttributes.partitionKey
              # args[c].newPrimaryKey.partitionKey
        /\ store # pre[c]

-----------------------------------------------------------------------------
(* C25 *)

\* C25: the store never receives a TransactWriteCommand with an empty list
\* of operations, from mutate or from replacePrimaryKey.
C25_NoEmptyTransactWrite ==
    \A c \in CallIds :
        \A i \in 1..Len(sent[c]) :
            sent[c][i].cmd = "TransactWrite" => sent[c][i].TransactItems # <<>>

-----------------------------------------------------------------------------
(* C26 *)

\* the placeholders of the expression are the keys of the two mappings
Closed(expression) ==
    LET clauses == expression.UpdateExpression.clauses
    IN /\ { clauses[k][1] : k \in 1..Len(clauses) }
             = DOMAIN expression.ExpressionAttributeNames
       /\ { clauses[k][2] : k \in 1..Len(clauses) }
             = DOMAIN expression.ExpressionAttributeValues

\* C26: for every item the result of getDDBUpdateExpression is closed: the
\* placeholders of UpdateExpression are exactly the keys of
\* ExpressionAttributeNames and ExpressionAttributeValues; and every call
\* starts from a fresh registry: each Update of a cascade plan carries the
\* expression #attr0 = :value0 with names {#attr0: parentId} and values
\* {:value0: newKey.partitionKey}.
C26_ExpressionClosedAndFresh ==
    /\ \A i \in CallsOf("getDDBUpdateExpression") : Closed(log[i].ret)
    /\ \A i \in CallsOf("prepareCascadeUpdateParams") :
          \A k \in 1..Len(log[i].ret) :
              LET update == log[i].ret[k].Update
              IN /\ update.UpdateExpression =
                       [prefix |-> "set",
                        clauses |-> <<<<AttrName(0), ValueName(0)>>>>]
                 /\ update.ExpressionAttributeNames = (AttrName(0) :> "parentId")
                 /\ update.ExpressionAttributeValues =
                       (ValueName(0) :>
                           Prim(log[i].arg.newPrimaryKey.partitionKey))

\* a plan of two updates
C26_Witness ==
    \E i \in CallsOf("prepareCascadeUpdateParams") : Len(log[i].ret) = 2

=============================================================================
